---- MODULE Spec2Model ----
(***************************************************************************)
(* Model of feroxbuster's src/main.rs: the pause/resume controller         *)
(* (terminal_input_handler), the wordlist loader, the target resolver,     *)
(* the scan orchestrator (scan) and main's shutdown sequence, together     *)
(* with the collaborators main.rs calls (reporting consumers, the          *)
(* single-target scanner, the connectivity filter).                        *)
(***************************************************************************)
EXTENDS Integers, Sequences, FiniteSets, TLC

\* ---------------------------------------------------------------- bounds
MaxLines == 2        \* lines in the wordlist file
MaxStdin == 2        \* lines on standard input
MaxMsgs == 2         \* result messages the scan tasks send in one run
MaxEnters == 2       \* Enter key presses the controller reads
MaxLineLen == 2      \* characters in a line of a loader input file

\* ---------------------------------------------------------- input alphabet
\* a wordlist line whose bytes cannot be decoded (reader.lines() yields Err)
BadLine == <<"?">>
\* wordlist lines, as sequences of characters: blank, comments, a word,
\* an undecodable line
Lines == {<<>>, <<"#">>, <<"#", "a">>, <<"a">>, BadLine}
\* a path File::open fails on
NoFile == [opens |-> FALSE, eof |-> FALSE, lines |-> <<>>]
\* the reader after reader.lines() has run: nothing is left to read
ReadFile == [opens |-> TRUE, eof |-> TRUE, lines |-> <<>>]

SeqsUpTo(S, n) == UNION {[1..k -> S] : k \in 0..n}

Files == {[opens |-> TRUE, eof |-> FALSE, lines |-> l] :
             l \in SeqsUpTo(Lines, MaxLines)} \cup {NoFile}

\* inputs of the loader taken on its own: every line over the characters
\* '#' and 'a' up to MaxLineLen, and the undecodable line
Chars == {"#", "a"}
LoaderLines == SeqsUpTo(Chars, MaxLineLen) \cup {BadLine}
LoaderFiles == {[opens |-> TRUE, eof |-> FALSE, lines |-> l] :
                   l \in SeqsUpTo(LoaderLines, MaxLines)} \cup {NoFile}

\* targets are numbered URLs: the i-th frame of stdin is either URL i or
\* a frame LinesCodec cannot decode (reader.next() yields Some(Err))
Targets == 1..MaxStdin
BadFrame == -1
Streams == UNION {{s \in [1..k -> Targets \cup {BadFrame}] :
                     \A i \in 1..k : s[i] \in {i, BadFrame}} : k \in 0..MaxStdin}

VARIABLES
    \* configuration and inputs (CONFIGURATION, the wordlist file, stdin)
    cfgStdin, target_url, stdinStream, save_output, wordlistFile,
    \* process-wide flags
    SCAN_COMPLETE, PAUSE_SCAN,
    \* terminal_input_handler
    ctlPc, current, enters,
    \* what the scan tasks' last read of PAUSE_SCAN returned ("running"
    \* before any read, as the flag starts false)
    seen,
    \* main / scan
    pc, targets, connChecked, live_targets, loadResult, words, tasks,
    scanResult, scanTxTerm, scanTxFile, mainTxTerm, mainTxFile,
    \* reporting pipeline
    termQueue, termSink, termLog, termDone,
    fileQueue, fileSink, fileLog, fileDone,
    \* observable outputs
    diag, shutdownLog, exitStatus

cfgVars == <<cfgStdin, target_url, stdinStream, save_output>>
inVars == <<cfgVars, wordlistFile>>
ctlVars == <<ctlPc, current, enters, PAUSE_SCAN>>
scanVars == <<targets, connChecked, live_targets, loadResult, words, tasks,
              scanResult, scanTxTerm, scanTxFile>>
termVars == <<termQueue, termSink, termLog, termDone>>
fileVars == <<fileQueue, fileSink, fileLog, fileDone>>
vars == <<cfgStdin, target_url, stdinStream, save_output, wordlistFile,
          SCAN_COMPLETE, PAUSE_SCAN, ctlPc, current, enters, seen,
          pc, targets, connChecked, live_targets, loadResult, words, tasks,
          scanResult, scanTxTerm, scanTxFile, mainTxTerm, mainTxFile,
          termQueue, termSink, termLog, termDone,
          fileQueue, fileSink, fileLog, fileDone,
          diag, shutdownLog, exitStatus>>

\* the process has not terminated
Running == exitStatus = "running"

\* --------------------------------------------------------- pure functions

\* slip: str::contains('#') in place of starts_with
contains_hash(line) == \E i \in 1..Len(line) : line[i] = "#"

\* str::starts_with('#')
starts_with_hash(line) == Len(line) > 0 /\ line[1] = "#"

\* str::is_empty
is_empty(line) == Len(line) = 0

\* slip: only blank lines are skipped, comment lines are kept as words
skip_line_blank_only(line) == is_empty(line)

\* the skip test of the loader's loop
skip_line(line) == starts_with_hash(line) \/ is_empty(line)

\* the loop of get_unique_words_from_wordlist over reader.lines():
\* `line?` returns the error at the first undecodable line, skipped lines
\* are not inserted, every other line is inserted into the HashSet
RECURSIVE read_lines(_, _)
read_lines(lines, acc) ==
    IF lines = <<>> THEN [ok |-> TRUE, words |-> acc]
    ELSE IF Head(lines) = BadLine THEN [ok |-> FALSE, words |-> {}]
    ELSE IF skip_line(Head(lines)) THEN read_lines(Tail(lines), acc)
    ELSE read_lines(Tail(lines), acc \cup {Head(lines)})

\* slip: lines that cannot be read are dropped (filter_map(Result::ok))
get_unique_words_skip_bad(file) ==
    IF ~file.opens THEN [ok |-> FALSE, words |-> {}]
    ELSE read_lines(SelectSeq(file.lines, LAMBDA l : l # BadLine), {})

get_unique_words_from_wordlist(file) ==
    IF ~file.opens THEN [ok |-> FALSE, words |-> {}]
    ELSE read_lines(file.lines, {})

\* the stdin loop of get_targets: `line?` returns the error at the first
\* frame that fails to decode, otherwise the frame is pushed
RECURSIVE read_frames(_, _)
read_frames(stream, acc) ==
    IF stream = <<>> THEN [ok |-> TRUE, targets |-> acc]
    ELSE IF Head(stream) = BadFrame THEN [ok |-> FALSE, targets |-> <<>>]
    ELSE read_frames(Tail(stream), Append(acc, Head(stream)))

\* slip: the frames are inserted at the front of the vector
RECURSIVE read_frames_front(_, _)
read_frames_front(stream, acc) ==
    IF stream = <<>> THEN [ok |-> TRUE, targets |-> acc]
    ELSE IF Head(stream) = BadFrame THEN [ok |-> FALSE, targets |-> <<>>]
    ELSE read_frames_front(Tail(stream), <<Head(stream)>> \o acc)

get_targets_reversed(stdin, stream, url) ==
    IF stdin THEN read_frames_front(stream, <<>>)
    ELSE [ok |-> TRUE, targets |-> <<url>>]

\* slip: a frame that fails to decode is skipped instead of returned
get_targets_skip_bad(stdin, stream, url) ==
    IF stdin
    THEN [ok |-> TRUE, targets |-> SelectSeq(stream, LAMBDA f : f # BadFrame)]
    ELSE [ok |-> TRUE, targets |-> <<url>>]

get_targets(stdin, stream, url) ==
    IF stdin THEN read_frames(stream, <<>>)
    ELSE [ok |-> TRUE, targets |-> <<url>>]

\* heuristics::connectivity_test keeps the responsive targets: every
\* order-preserving subsequence of its input is a possible answer
RECURSIVE SubSeqs(_)
SubSeqs(s) ==
    IF s = <<>> THEN {<<>>}
    ELSE LET rest == SubSeqs(Tail(s))
         IN rest \cup {<<Head(s)>> \o r : r \in rest}

\* ----------------------------------------------------------------- Init
Init ==
    /\ cfgStdin \in BOOLEAN
    /\ target_url = 1
    /\ stdinStream \in IF cfgStdin THEN Streams ELSE {<<>>}
    /\ save_output \in BOOLEAN
    /\ wordlistFile \in Files
    /\ SCAN_COMPLETE = FALSE
    /\ PAUSE_SCAN = FALSE
    /\ ctlPc = "idle"
    /\ current = FALSE
    /\ enters = 0
    /\ seen = "running"
    /\ pc = "start"
    /\ targets = <<>>
    /\ connChecked = FALSE
    /\ live_targets = <<>>
    /\ loadResult = "none"
    /\ words = {}
    /\ tasks = <<>>
    /\ scanResult = "none"
    /\ scanTxTerm = FALSE
    /\ scanTxFile = FALSE
    /\ mainTxTerm = FALSE
    /\ mainTxFile = FALSE
    /\ termQueue = <<>>
    /\ termSink = <<>>
    /\ termLog = <<>>
    /\ termDone = FALSE
    /\ fileQueue = <<>>
    /\ fileSink = <<>>
    /\ fileLog = <<>>
    /\ fileDone = FALSE
    /\ diag = {}
    /\ shutdownLog = <<>>
    /\ exitStatus = "running"


\* ------------------------------------------------ terminal_input_handler

\* event::poll(..).unwrap_or(false): an available event leads to the read,
\* a timeout and a poll error both lead to the SCAN_COMPLETE check
CtlPoll ==
    /\ Running
    /\ ctlPc = "poll"
    /\ \E outcome \in {"event", "timeout", "error"} :
          ctlPc' = IF outcome = "event" THEN "read" ELSE "check"
    /\ UNCHANGED <<inVars, seen, SCAN_COMPLETE, PAUSE_SCAN, current, enters, pc,
                   scanVars, mainTxTerm, mainTxFile, termVars, fileVars,
                   diag, shutdownLog, exitStatus>>

\* slip: every key event toggles, not only Enter
is_enter_any_key(ev) == ev \in {"Enter", "Char"}

\* the test that selects the toggle
is_enter(ev) == ev = "Enter"

\* event::read(): Enter leads to the toggle, every other event and a
\* failed read go back to the poll; enters counts the Enter events read
CtlRead ==
    /\ Running
    /\ ctlPc = "read"
    /\ \E ev \in {"Enter", "Char", "Resize", "ReadErr"} :
          /\ ev = "Enter" => enters < MaxEnters
          /\ enters' = IF ev = "Enter" THEN enters + 1 ELSE enters
          /\ ctlPc' = IF is_enter(ev) THEN "load" ELSE "poll"
    /\ UNCHANGED <<inVars, seen, SCAN_COMPLETE, PAUSE_SCAN, current, pc,
                   scanVars, mainTxTerm, mainTxFile, termVars, fileVars,
                   diag, shutdownLog, exitStatus>>

\* slip: the flag is not loaded again, the toggle reuses the value it
\* holds from before
CtlLoad_Stale ==
    /\ Running
    /\ ctlPc = "load"
    /\ ctlPc' = "store"
    /\ UNCHANGED <<inVars, seen, SCAN_COMPLETE, PAUSE_SCAN, current, enters,
                   pc, scanVars, mainTxTerm, mainTxFile, termVars, fileVars,
                   diag, shutdownLog, exitStatus>>

\* let current = PAUSE_SCAN.load(Ordering::Acquire)
CtlLoad ==
    /\ Running
    /\ ctlPc = "load"
    /\ current' = PAUSE_SCAN
    /\ ctlPc' = "store"
    /\ UNCHANGED <<inVars, seen, SCAN_COMPLETE, PAUSE_SCAN, enters, pc,
                   scanVars, mainTxTerm, mainTxFile, termVars, fileVars,
                   diag, shutdownLog, exitStatus>>

\* the value the toggle stores
toggled(b) == ~b

\* PAUSE_SCAN.store(!current, Ordering::Release)
CtlStore ==
    /\ Running
    /\ ctlPc = "store"
    /\ PAUSE_SCAN' = toggled(current)
    /\ ctlPc' = "poll"
    /\ UNCHANGED <<inVars, seen, SCAN_COMPLETE, current, enters, pc,
                   scanVars, mainTxTerm, mainTxFile, termVars, fileVars,
                   diag, shutdownLog, exitStatus>>

\* slip: the break is missing, the flag is read and ignored
should_exit_never(flag) == FALSE

\* slip: the loop breaks on the first timeout tick, whatever the flag
should_exit_always(flag) == TRUE

\* the break condition of the loop
should_exit(flag) == flag

\* if SCAN_COMPLETE.load(Ordering::Relaxed) { break; }
CtlCheck ==
    /\ Running
    /\ ctlPc = "check"
    /\ ctlPc' = IF should_exit(SCAN_COMPLETE) THEN "done" ELSE "poll"
    /\ UNCHANGED <<inVars, seen, SCAN_COMPLETE, PAUSE_SCAN, current, enters, pc,
                   scanVars, mainTxTerm, mainTxFile, termVars, fileVars,
                   diag, shutdownLog, exitStatus>>

\* ------------------------------------------------------------------ main

\* main.rs 171-185: spawn_blocking(terminal_input_handler), then
\* reporter::initialize creates both channels, hands main the two original
\* senders and spawns the consumers
MainStart ==
    /\ Running
    /\ pc = "start"
    /\ ctlPc' = "poll"
    /\ mainTxTerm' = TRUE
    /\ mainTxFile' = TRUE
    /\ pc' = "get_targets"
    /\ UNCHANGED <<inVars, seen, SCAN_COMPLETE, PAUSE_SCAN, current, enters,
                   scanVars, termVars, fileVars, diag, shutdownLog, exitStatus>>

\* main.rs 188-204: get_targets().await; Err is reported and exits 1
MainGetTargets ==
    /\ Running
    /\ pc = "get_targets"
    /\ LET r == get_targets(cfgStdin, stdinStream, target_url)
       IN IF r.ok
          THEN /\ targets' = r.targets
               /\ pc' = "connectivity"
               /\ UNCHANGED <<diag, exitStatus>>
          ELSE /\ diag' = diag \cup {"main::get_targets"}
               /\ exitStatus' = "nonzero"
               /\ pc' = "exited"
               /\ UNCHANGED targets
    /\ UNCHANGED <<inVars, seen, SCAN_COMPLETE, ctlVars, connChecked, live_targets,
                   loadResult, words, tasks, scanResult, scanTxTerm, scanTxFile,
                   mainTxTerm, mainTxFile, termVars, fileVars, shutdownLog>>

\* main.rs 206-216: banner, heuristics::connectivity_test(&targets), then
\* the call of scan with a clone of each sender
MainConnectivity ==
    /\ Running
    /\ pc = "connectivity"
    /\ connChecked' = TRUE
    /\ live_targets' \in SubSeqs(targets)
    /\ scanTxTerm' = TRUE
    /\ scanTxFile' = TRUE
    /\ pc' = "scan_load"
    /\ UNCHANGED <<inVars, seen, SCAN_COMPLETE, ctlVars, targets, loadResult, words,
                   tasks, scanResult, mainTxTerm, mainTxFile, termVars,
                   fileVars, diag, shutdownLog, exitStatus>>

\* slip: the emptiness test never fires
no_words_never(w) == Cardinality(w) < 0

\* the emptiness test of scan
no_words(w) == Cardinality(w) = 0

\* main.rs 109-123: the wordlist is loaded, which reads the file to its
\* end; a failed load makes scan return Err (its senders drop, main logs
\* the error and goes on to the shutdown); an empty set is reported and the
\* process exits 1
ScanLoad ==
    /\ Running
    /\ pc = "scan_load"
    /\ LET r == get_unique_words_from_wordlist(wordlistFile)
       IN IF ~r.ok
          THEN /\ loadResult' = "err"
               /\ diag' = IF ~wordlistFile.opens
                          THEN diag \cup {"main::get_unique_words_from_wordlist"}
                          ELSE diag
               /\ wordlistFile' = IF wordlistFile.opens THEN ReadFile
                                  ELSE wordlistFile
               /\ scanResult' = "err"
               /\ scanTxTerm' = FALSE
               /\ scanTxFile' = FALSE
               /\ pc' = "drop_tx_term"
               /\ UNCHANGED <<words, exitStatus>>
          ELSE /\ loadResult' = "ok"
               /\ words' = r.words
               /\ wordlistFile' = ReadFile
               /\ IF no_words(r.words)
                  THEN /\ diag' = diag \cup {"main::scan"}
                       /\ exitStatus' = "nonzero"
                       /\ pc' = "exited"
                  ELSE /\ pc' = "scan_spawn"
                       /\ UNCHANGED <<diag, exitStatus>>
               /\ UNCHANGED <<scanResult, scanTxTerm, scanTxFile>>
    /\ UNCHANGED <<cfgVars, seen, SCAN_COMPLETE, ctlVars, targets,
                   connChecked, live_targets, tasks, mainTxTerm, mainTxFile,
                   termVars, fileVars, shutdownLog>>

\* the targets the spawn loop still has to visit
more_targets(spawned, live) == Len(spawned) < Len(live)

\* main.rs 125-136: one iteration of `for target in targets`: the task is
\* spawned with its own clone of the wordlist and of both senders
ScanSpawn ==
    /\ Running
    /\ pc = "scan_spawn"
    /\ more_targets(tasks, live_targets)
    /\ tasks' = Append(tasks, [target |-> live_targets[Len(tasks) + 1],
                               state |-> "running", sent |-> 0])
    /\ UNCHANGED <<inVars, seen, SCAN_COMPLETE, ctlVars, pc, targets, connChecked,
                   live_targets, loadResult, words, scanResult, scanTxTerm,
                   scanTxFile, mainTxTerm, mainTxFile, termVars, fileVars,
                   diag, shutdownLog, exitStatus>>

\* slip: join_all is missing, scan returns as soon as the loop is over
ScanSpawnDone_NoJoin ==
    /\ Running
    /\ pc = "scan_spawn"
    /\ ~more_targets(tasks, live_targets)
    /\ scanResult' = "ok"
    /\ scanTxTerm' = FALSE
    /\ scanTxFile' = FALSE
    /\ pc' = "drop_tx_term"
    /\ UNCHANGED <<inVars, seen, SCAN_COMPLETE, ctlVars, targets, connChecked,
                   live_targets, loadResult, words, tasks, mainTxTerm,
                   mainTxFile, termVars, fileVars, diag, shutdownLog, exitStatus>>

\* the loop is over
ScanSpawnDone ==
    /\ Running
    /\ pc = "scan_spawn"
    /\ ~more_targets(tasks, live_targets)
    /\ pc' = "scan_join"
    /\ UNCHANGED <<inVars, seen, SCAN_COMPLETE, ctlVars, targets, connChecked,
                   live_targets, loadResult, words, tasks, scanResult,
                   scanTxTerm, scanTxFile, mainTxTerm, mainTxFile, termVars,
                   fileVars, diag, shutdownLog, exitStatus>>

\* slip: only the first handle is awaited
all_joined_first(ts) == \A i \in 1..Len(ts) : i = 1 => ts[i].state # "running"

\* join_all(tasks) resolves when every handle has resolved
all_joined(ts) == \A i \in 1..Len(ts) : ts[i].state # "running"

\* slip: a JoinError among the results is propagated as scan's error
ScanJoin_ErrOnPanic ==
    /\ Running
    /\ pc = "scan_join"
    /\ all_joined(tasks)
    /\ scanResult' = IF \E i \in 1..Len(tasks) : tasks[i].state = "panicked"
                     THEN "err" ELSE "ok"
    /\ scanTxTerm' = FALSE
    /\ scanTxFile' = FALSE
    /\ pc' = "drop_tx_term"
    /\ UNCHANGED <<inVars, seen, SCAN_COMPLETE, ctlVars, targets, connChecked,
                   live_targets, loadResult, words, tasks, mainTxTerm,
                   mainTxFile, termVars, fileVars, diag, shutdownLog, exitStatus>>

\* slip: a JoinError among the results is treated as fatal
ScanJoin_ExitOnPanic ==
    /\ Running
    /\ pc = "scan_join"
    /\ all_joined(tasks)
    /\ IF \E i \in 1..Len(tasks) : tasks[i].state = "panicked"
       THEN /\ diag' = diag \cup {"main::scan"}
            /\ exitStatus' = "nonzero"
            /\ pc' = "exited"
            /\ UNCHANGED <<scanResult, scanTxTerm, scanTxFile>>
       ELSE /\ scanResult' = "ok"
            /\ scanTxTerm' = FALSE
            /\ scanTxFile' = FALSE
            /\ pc' = "drop_tx_term"
            /\ UNCHANGED <<diag, exitStatus>>
    /\ UNCHANGED <<inVars, seen, SCAN_COMPLETE, ctlVars, targets, connChecked,
                   live_targets, loadResult, words, tasks, mainTxTerm,
                   mainTxFile, termVars, fileVars, shutdownLog>>

\* main.rs 138-142: join_all(tasks).await; Ok(()); scan's senders drop
ScanJoin ==
    /\ Running
    /\ pc = "scan_join"
    /\ all_joined(tasks)
    /\ scanResult' = "ok"
    /\ scanTxTerm' = FALSE
    /\ scanTxFile' = FALSE
    /\ pc' = "drop_tx_term"
    /\ UNCHANGED <<inVars, seen, SCAN_COMPLETE, ctlVars, targets, connChecked,
                   live_targets, loadResult, words, tasks, mainTxTerm,
                   mainTxFile, termVars, fileVars, diag, shutdownLog, exitStatus>>


\* ------------------------------------------------------------ scan tasks

\* the senders of the terminal channel that are still alive: main's
\* original, the clone scan owns, the clone of every running task
TermClosed ==
    /\ ~mainTxTerm
    /\ ~scanTxTerm
    /\ \A i \in 1..Len(tasks) : tasks[i].state # "running"

FileClosed ==
    /\ ~mainTxFile
    /\ ~scanTxFile
    /\ \A i \in 1..Len(tasks) : tasks[i].state # "running"

\* the messages the tasks have sent so far
RECURSIVE TotalSent(_)
TotalSent(ts) == IF ts = <<>> THEN 0 ELSE Head(ts).sent + TotalSent(Tail(ts))

\* scan_url sends one Result Message on its terminal sender
TaskSendTerm(i) ==
    /\ Running
    /\ tasks[i].state = "running"
    /\ TotalSent(tasks) < MaxMsgs
    /\ LET m == <<i, tasks[i].sent + 1>>
       IN /\ termQueue' = Append(termQueue, m)
          /\ termLog' = Append(termLog, m)
    /\ tasks' = [tasks EXCEPT ![i].sent = @ + 1]
    /\ UNCHANGED <<inVars, seen, SCAN_COMPLETE, ctlVars, pc, targets, connChecked,
                   live_targets, loadResult, words, scanResult, scanTxTerm,
                   scanTxFile, mainTxTerm, mainTxFile, termSink, termDone,
                   fileVars, diag, shutdownLog, exitStatus>>

\* scan_url sends one Result Message on its file sender; without a file
\* consumer the channel has no receiver and the send is discarded
TaskSendFile(i) ==
    /\ Running
    /\ tasks[i].state = "running"
    /\ TotalSent(tasks) < MaxMsgs
    /\ LET m == <<i, tasks[i].sent + 1>>
       IN IF save_output
          THEN /\ fileQueue' = Append(fileQueue, m)
               /\ fileLog' = Append(fileLog, m)
          ELSE UNCHANGED <<fileQueue, fileLog>>
    /\ tasks' = [tasks EXCEPT ![i].sent = @ + 1]
    /\ UNCHANGED <<inVars, seen, SCAN_COMPLETE, ctlVars, pc, targets, connChecked,
                   live_targets, loadResult, words, scanResult, scanTxTerm,
                   scanTxFile, mainTxTerm, mainTxFile, termVars, fileSink,
                   fileDone, diag, shutdownLog, exitStatus>>

\* scan_url polls the Pause Flag between probes: one atomic load
TaskReadPause(i) ==
    /\ Running
    /\ tasks[i].state = "running"
    /\ seen' = IF PAUSE_SCAN THEN "paused" ELSE "running"
    /\ UNCHANGED <<inVars, SCAN_COMPLETE, ctlVars, pc, scanVars, mainTxTerm,
                   mainTxFile, termVars, fileVars, diag, shutdownLog,
                   exitStatus>>

\* main.rs 130-133: scan_url returns, the task's block ends and its clones
\* of the wordlist and of both senders drop
TaskFinish(i) ==
    /\ Running
    /\ tasks[i].state = "running"
    /\ tasks' = [tasks EXCEPT ![i].state = "done"]
    /\ UNCHANGED <<inVars, seen, SCAN_COMPLETE, ctlVars, pc, targets, connChecked,
                   live_targets, loadResult, words, scanResult, scanTxTerm,
                   scanTxFile, mainTxTerm, mainTxFile, termVars, fileVars,
                   diag, shutdownLog, exitStatus>>

\* the task panics: its handle resolves to a JoinError, its clones drop
TaskPanic(i) ==
    /\ Running
    /\ tasks[i].state = "running"
    /\ tasks' = [tasks EXCEPT ![i].state = "panicked"]
    /\ UNCHANGED <<inVars, seen, SCAN_COMPLETE, ctlVars, pc, targets, connChecked,
                   live_targets, loadResult, words, scanResult, scanTxTerm,
                   scanTxFile, mainTxTerm, mainTxFile, termVars, fileVars,
                   diag, shutdownLog, exitStatus>>

\* --------------------------------------------------- reporting consumers

\* the terminal consumer receives the oldest message and writes it
TermRecv ==
    /\ Running
    /\ pc # "start"
    /\ ~termDone
    /\ termQueue # <<>>
    /\ termSink' = Append(termSink, Head(termQueue))
    /\ termQueue' = Tail(termQueue)
    /\ UNCHANGED <<inVars, seen, SCAN_COMPLETE, ctlVars, pc, scanVars, mainTxTerm,
                   mainTxFile, termLog, termDone, fileVars, diag, shutdownLog,
                   exitStatus>>

\* recv() returns None on an empty channel whose senders are all dropped:
\* the consumer's loop ends and its task completes
TermClose ==
    /\ Running
    /\ pc # "start"
    /\ ~termDone
    /\ termQueue = <<>>
    /\ TermClosed
    /\ termDone' = TRUE
    /\ UNCHANGED <<inVars, seen, SCAN_COMPLETE, ctlVars, pc, scanVars, mainTxTerm,
                   mainTxFile, termQueue, termSink, termLog, fileVars, diag,
                   shutdownLog, exitStatus>>

\* the file consumer exists only when file output is configured
FileRecv ==
    /\ Running
    /\ pc # "start"
    /\ save_output
    /\ ~fileDone
    /\ fileQueue # <<>>
    /\ fileSink' = Append(fileSink, Head(fileQueue))
    /\ fileQueue' = Tail(fileQueue)
    /\ UNCHANGED <<inVars, seen, SCAN_COMPLETE, ctlVars, pc, scanVars, mainTxTerm,
                   mainTxFile, termVars, fileLog, fileDone, diag, shutdownLog,
                   exitStatus>>

FileClose ==
    /\ Running
    /\ pc # "start"
    /\ save_output
    /\ ~fileDone
    /\ fileQueue = <<>>
    /\ FileClosed
    /\ fileDone' = TRUE
    /\ UNCHANGED <<inVars, seen, SCAN_COMPLETE, ctlVars, pc, scanVars, mainTxTerm,
                   mainTxFile, termVars, fileQueue, fileSink, fileLog, diag,
                   shutdownLog, exitStatus>>

\* --------------------------------------------------------------- shutdown

\* slip: tx_term is borrowed, not dropped: main keeps its sender
MainDropTxTerm_NoDrop ==
    /\ Running
    /\ pc = "drop_tx_term"
    /\ shutdownLog' = Append(shutdownLog, "drop_tx_term")
    /\ pc' = "await_term"
    /\ UNCHANGED <<inVars, seen, SCAN_COMPLETE, ctlVars, scanVars, mainTxTerm,
                   mainTxFile, termVars, fileVars, diag, exitStatus>>

\* slip: the await of the terminal handle is left out altogether
MainDropTxTerm_SkipAwait ==
    /\ Running
    /\ pc = "drop_tx_term"
    /\ mainTxTerm' = FALSE
    /\ shutdownLog' = Append(shutdownLog, "drop_tx_term")
    /\ pc' = "drop_tx_file"
    /\ UNCHANGED <<inVars, seen, SCAN_COMPLETE, ctlVars, scanVars, mainTxFile,
                   termVars, fileVars, diag, exitStatus>>

\* drop(tx_term)
MainDropTxTerm ==
    /\ Running
    /\ pc = "drop_tx_term"
    /\ mainTxTerm' = FALSE
    /\ shutdownLog' = Append(shutdownLog, "drop_tx_term")
    /\ pc' = "await_term"
    /\ UNCHANGED <<inVars, seen, SCAN_COMPLETE, ctlVars, scanVars, mainTxFile,
                   termVars, fileVars, diag, exitStatus>>

\* slip: the terminal handle is not awaited
MainAwaitTerm_NoWait ==
    /\ Running
    /\ pc = "await_term"
    /\ shutdownLog' = Append(shutdownLog, "await_term")
    /\ pc' = "drop_tx_file"
    /\ UNCHANGED <<inVars, seen, SCAN_COMPLETE, ctlVars, scanVars, mainTxTerm,
                   mainTxFile, termVars, fileVars, diag, exitStatus>>

\* term_handle.await resolves when the terminal consumer task has completed
MainAwaitTerm ==
    /\ Running
    /\ pc = "await_term"
    /\ termDone
    /\ shutdownLog' = Append(shutdownLog, "await_term")
    /\ pc' = "drop_tx_file"
    /\ UNCHANGED <<inVars, seen, SCAN_COMPLETE, ctlVars, scanVars, mainTxTerm,
                   mainTxFile, termVars, fileVars, diag, exitStatus>>

\* slip: the file handle is never awaited
MainDropTxFile_NoFileAwait ==
    /\ Running
    /\ pc = "drop_tx_file"
    /\ mainTxFile' = FALSE
    /\ shutdownLog' = Append(shutdownLog, "drop_tx_file")
    /\ pc' = "set_complete"
    /\ UNCHANGED <<inVars, seen, SCAN_COMPLETE, ctlVars, scanVars, mainTxTerm,
                   termVars, fileVars, diag, exitStatus>>

\* drop(tx_file), whether or not file output is configured
MainDropTxFile ==
    /\ Running
    /\ pc = "drop_tx_file"
    /\ mainTxFile' = FALSE
    /\ shutdownLog' = Append(shutdownLog, "drop_tx_file")
    /\ pc' = IF save_output THEN "await_file" ELSE "set_complete"
    /\ UNCHANGED <<inVars, seen, SCAN_COMPLETE, ctlVars, scanVars, mainTxTerm,
                   termVars, fileVars, diag, exitStatus>>

\* slip: the flag is set without waiting for the file consumer
MainAwaitFile_NoWait ==
    /\ Running
    /\ pc = "await_file"
    /\ shutdownLog' = Append(shutdownLog, "await_file")
    /\ pc' = "set_complete"
    /\ UNCHANGED <<inVars, seen, SCAN_COMPLETE, ctlVars, scanVars, mainTxTerm,
                   mainTxFile, termVars, fileVars, diag, exitStatus>>

\* file_handle.unwrap().await, only under save_output
MainAwaitFile ==
    /\ Running
    /\ pc = "await_file"
    /\ fileDone
    /\ shutdownLog' = Append(shutdownLog, "await_file")
    /\ pc' = "set_complete"
    /\ UNCHANGED <<inVars, seen, SCAN_COMPLETE, ctlVars, scanVars, mainTxTerm,
                   mainTxFile, termVars, fileVars, diag, exitStatus>>

\* SCAN_COMPLETE.store(true, Ordering::Relaxed)
MainSetComplete ==
    /\ Running
    /\ pc = "set_complete"
    /\ SCAN_COMPLETE' = TRUE
    /\ shutdownLog' = Append(shutdownLog, "set_complete")
    /\ pc' = "finish"
    /\ UNCHANGED <<inVars, seen, ctlVars, scanVars, mainTxTerm, mainTxFile,
                   termVars, fileVars, diag, exitStatus>>

\* PROGRESS_PRINTER.finish(), then main returns
MainFinish ==
    /\ Running
    /\ pc = "finish"
    /\ shutdownLog' = Append(shutdownLog, "finish")
    /\ pc' = "returned"
    /\ UNCHANGED <<inVars, seen, SCAN_COMPLETE, ctlVars, scanVars, mainTxTerm,
                   mainTxFile, termVars, fileVars, diag, exitStatus>>

\* #[tokio::main]: after main's body returns the runtime is dropped, which
\* waits for the blocking thread of terminal_input_handler; the process
\* then exits with status zero
ProcessExit ==
    /\ Running
    /\ pc = "returned"
    /\ ctlPc = "done"
    /\ exitStatus' = "zero"
    /\ UNCHANGED <<inVars, seen, SCAN_COMPLETE, ctlVars, pc, scanVars, mainTxTerm,
                   mainTxFile, termVars, fileVars, diag, shutdownLog>>

\* ---------------------------------------------------------- specification
Next ==
    \/ CtlPoll
    \/ CtlRead
    \/ CtlLoad
    \/ CtlStore
    \/ CtlCheck
    \/ MainStart
    \/ MainGetTargets
    \/ MainConnectivity
    \/ ScanLoad
    \/ ScanSpawn
    \/ ScanSpawnDone
    \/ ScanJoin
    \/ \E i \in 1..Len(tasks) : TaskSendTerm(i)
    \/ \E i \in 1..Len(tasks) : TaskSendFile(i)
    \/ \E i \in 1..Len(tasks) : TaskFinish(i)
    \/ \E i \in 1..Len(tasks) : TaskPanic(i)
    \/ TermRecv
    \/ TermClose
    \/ FileRecv
    \/ FileClose
    \/ MainDropTxTerm
    \/ MainAwaitTerm
    \/ MainDropTxFile
    \/ MainAwaitFile
    \/ MainSetComplete
    \/ MainFinish
    \/ ProcessExit

Spec == Init /\ [][Next]_vars

\* the steps of each thread of control, for the fairness the scheduling
\* gives them
CtlStep == CtlPoll \/ CtlRead \/ CtlLoad \/ CtlStore \/ CtlCheck

MainStep ==
    \/ MainStart
    \/ MainGetTargets
    \/ MainConnectivity
    \/ ScanLoad
    \/ ScanSpawn
    \/ ScanSpawnDone
    \/ ScanJoin
    \/ MainDropTxTerm
    \/ MainAwaitTerm
    \/ MainDropTxFile
    \/ MainAwaitFile
    \/ MainSetComplete
    \/ MainFinish

TaskEnd == \E i \in 1..Len(tasks) : TaskFinish(i) \/ TaskPanic(i)

TermStep == TermRecv \/ TermClose

FileStep == FileRecv \/ FileClose

\* the controller runs on a thread of its own (spawn_blocking), main and
\* the consumers are tasks of the tokio runtime, which polls every ready
\* task; every spawned scan task is taken to terminate. Which outcome a
\* poll of the terminal has is the user's choice and gets no fairness.
Fairness ==
    /\ WF_vars(CtlStep)
    /\ WF_vars(MainStep)
    /\ WF_vars(TaskEnd)
    /\ WF_vars(TermStep)
    /\ WF_vars(FileStep)
    /\ WF_vars(ProcessExit)

FairSpec == Init /\ [][Next]_vars /\ Fairness

\* the same program with the scan tasks' polls of the Pause Flag made
\* visible
NextPause ==
    \/ Next
    \/ \E i \in 1..Len(tasks) : TaskReadPause(i)

PauseSpec == Init /\ [][NextPause]_vars

\* ------------------------------------ get_unique_words_from_wordlist alone
\* the loader called on a file of LoaderFiles, nothing else of the program
\* running
LoaderInit ==
    /\ cfgStdin = FALSE
    /\ target_url = 1
    /\ stdinStream = <<>>
    /\ save_output = FALSE
    /\ wordlistFile \in LoaderFiles
    /\ SCAN_COMPLETE = FALSE
    /\ PAUSE_SCAN = FALSE
    /\ ctlPc = "idle"
    /\ current = FALSE
    /\ enters = 0
    /\ seen = "running"
    /\ pc = "loader"
    /\ targets = <<>>
    /\ connChecked = FALSE
    /\ live_targets = <<>>
    /\ loadResult = "none"
    /\ words = {}
    /\ tasks = <<>>
    /\ scanResult = "none"
    /\ scanTxTerm = FALSE
    /\ scanTxFile = FALSE
    /\ mainTxTerm = FALSE
    /\ mainTxFile = FALSE
    /\ termQueue = <<>>
    /\ termSink = <<>>
    /\ termLog = <<>>
    /\ termDone = FALSE
    /\ fileQueue = <<>>
    /\ fileSink = <<>>
    /\ fileLog = <<>>
    /\ fileDone = FALSE
    /\ diag = {}
    /\ shutdownLog = <<>>
    /\ exitStatus = "running"

\* one call of the loader; the input is kept beside the result
LoaderApply ==
    /\ pc = "loader"
    /\ LET r == get_unique_words_from_wordlist(wordlistFile)
       IN /\ loadResult' = IF r.ok THEN "ok" ELSE "err"
          /\ words' = r.words
    /\ pc' = "loaded"
    /\ UNCHANGED <<inVars, seen, SCAN_COMPLETE, ctlVars, targets, connChecked,
                   live_targets, tasks, scanResult, scanTxTerm, scanTxFile,
                   mainTxTerm, mainTxFile, termVars, fileVars, diag,
                   shutdownLog, exitStatus>>

LoaderNext == LoaderApply

LoaderSpec == LoaderInit /\ [][LoaderNext]_vars


\* ------------------------------------------------------ shared vocabulary

IsPrefix(s, t) == Len(s) <= Len(t) /\ \A i \in 1..Len(s) : s[i] = t[i]

Logged(step) == \E i \in 1..Len(shutdownLog) : shutdownLog[i] = step

Times(step) == Cardinality({i \in 1..Len(shutdownLog) : shutdownLog[i] = step})

\* the six steps of the shutdown, the fourth only under file output
ShutdownOrder ==
    IF save_output
    THEN <<"drop_tx_term", "await_term", "drop_tx_file", "await_file",
           "set_complete", "finish">>
    ELSE <<"drop_tx_term", "await_term", "drop_tx_file",
           "set_complete", "finish">>

AllTasksFinished == \A i \in 1..Len(tasks) : tasks[i].state # "running"

\* a wordlist line that is blank or a comment
BlankOrComment(l) == l = <<>> \/ (l # <<>> /\ Head(l) = "#")

\* the wordlist file, not read yet, opens and holds only blank lines and
\* comments
OnlyBlankOrComments ==
    /\ wordlistFile.opens
    /\ ~wordlistFile.eof
    /\ \A i \in 1..Len(wordlistFile.lines) : BlankOrComment(wordlistFile.lines[i])

HasBadFrame == \E i \in 1..Len(stdinStream) : stdinStream[i] = BadFrame

\* ------------------------------------------------------------------ C1
\* C1: in every run that reaches the shutdown, the steps happen in the
\* order drop terminal sender, terminal consumer awaited, drop file sender,
\* file consumer awaited (under file output), SCAN_COMPLETE set, final
\* cleanup; a step is taken only when the one before it has completed, and
\* main returns only after all of them.
C1_ShutdownOrder ==
    /\ IsPrefix(shutdownLog, ShutdownOrder)
    /\ Logged("drop_tx_term") <=> (pc # "start" /\ ~mainTxTerm)
    /\ Logged("await_term") => termDone
    /\ Logged("drop_tx_file") <=> (pc # "start" /\ ~mainTxFile)
    /\ Logged("await_file") => fileDone
    /\ Logged("set_complete") <=> SCAN_COMPLETE
    /\ pc = "returned" <=> Logged("finish")
    /\ pc = "returned" => shutdownLog = ShutdownOrder

C1_Witness ==
    /\ pc = "returned"
    /\ save_output
    /\ Len(shutdownLog) = 6
    /\ termSink # <<>>
    /\ fileSink # <<>>

\* ------------------------------------------------------------------ C2
\* C2: each reporting channel that has a consumer is a FIFO without loss or
\* duplication: what the consumer has written followed by what is still
\* queued is the arrival log; the consumer completes only on a closed and
\* drained channel, so that once main's await of it has returned the sink
\* holds every message sent, in arrival order.
C2_NoLossNoReorder ==
    /\ termSink \o termQueue = termLog
    /\ termDone => (TermClosed /\ termQueue = <<>> /\ termSink = termLog)
    /\ Logged("await_term") => termSink = termLog
    /\ save_output =>
          /\ fileSink \o fileQueue = fileLog
          /\ fileDone => (FileClosed /\ fileQueue = <<>> /\ fileSink = fileLog)
          /\ Logged("await_file") => fileSink = fileLog

C2_Witness ==
    /\ Logged("await_file")
    /\ Len(termSink) >= 2
    /\ termSink[1][1] = 2
    /\ termSink[2][1] = 1

\* ------------------------------------------------------------------ C3
\* C3: scan spawns one task per live target, in order, and when it has
\* returned Ok it has spawned exactly N tasks and each of them has finished.
C3_SpawnsNAndJoinsAll ==
    /\ Len(tasks) <= Len(live_targets)
    /\ \A i \in 1..Len(tasks) : tasks[i].target = live_targets[i]
    /\ scanResult = "ok" =>
          /\ Len(tasks) = Len(live_targets)
          /\ AllTasksFinished

C3_Witness ==
    /\ scanResult = "ok"
    /\ Len(live_targets) = 2
    /\ Len(tasks) = 2

\* ------------------------------------------------------------------ C4
\* C4: when the wordlist file cannot be opened the process exits with a
\* non-zero status and no scan task is ever spawned.
C4_MissingWordlistExitsNonZero ==
    (~wordlistFile.opens /\ exitStatus # "running") =>
        (exitStatus = "nonzero" /\ tasks = <<>>)

\* ------------------------------------------------------------------ C5
\* C5: a wordlist file of blank lines and comments only loads to the empty
\* set, and whenever the loaded set is empty the error is reported and the
\* process has terminated with a non-zero status without a single task
\* spawned, whatever the live targets.
C5_EmptyWordlistFatal ==
    /\ [][(pc = "scan_load" /\ pc' # "scan_load" /\ OnlyBlankOrComments) =>
            (loadResult' = "ok" /\ words' = {})]_vars
    /\ []((loadResult = "ok" /\ words = {}) =>
            /\ exitStatus = "nonzero"
            /\ pc = "exited"
            /\ "main::scan" \in diag
            /\ tasks = <<>>
            /\ scanResult = "none")

C5_Witness ==
    /\ loadResult = "ok"
    /\ words = {}
    /\ exitStatus = "nonzero"
    /\ "main::scan" \in diag
    /\ Len(live_targets) = 2

C7_CompletionFlag ==
    /\ ~SCAN_COMPLETE
    /\ [][SCAN_COMPLETE => SCAN_COMPLETE']_vars
    /\ [][SCAN_COMPLETE' # SCAN_COMPLETE => Times("set_complete") = 0]_vars
    /\ [](Times("set_complete") <= 1)
    /\ [](SCAN_COMPLETE =>
            /\ AllTasksFinished
            /\ Len(tasks) = Len(live_targets) \/ scanResult = "err"
            /\ termDone
            /\ termQueue = <<>>
            /\ save_output => (fileDone /\ fileQueue = <<>>))

C7_Witness ==
    /\ SCAN_COMPLETE
    /\ save_output
    /\ Len(tasks) = 2
    /\ fileSink # <<>>
    /\ termSink # <<>>

\* ------------------------------------------------------------------ C8
\* C8: the controller leaves its loop only from the no-event branch of the
\* poll and only when it reads SCAN_COMPLETE as true there; it never leaves
\* from the event branch and is never out of the loop while the flag is
\* false.
C8_SingleExitPath ==
    /\ [][(ctlPc' = "done" /\ ctlPc # "done") =>
            (ctlPc = "check" /\ SCAN_COMPLETE)]_vars
    /\ [][(ctlPc \in {"read", "load", "store"}) => (ctlPc' # "done")]_vars
    /\ [][(ctlPc' = "check" /\ ctlPc # "check") => ctlPc = "poll"]_vars
    /\ [](ctlPc = "done" => SCAN_COMPLETE)

C8_Witness ==
    /\ ctlPc = "done"
    /\ PAUSE_SCAN
    /\ enters = 1

\* ------------------------------------------------------------------ C9
\* C9: PAUSE_SCAN changes only in the controller's store that follows an
\* Enter event, which negates it; so the flag is true exactly when an odd
\* number of Enter events has been toggled, two of them restore it, and no
\* other event, failed read or timeout tick changes it.
C9_ToggleOnlyOnEnter ==
    /\ [][PAUSE_SCAN' # PAUSE_SCAN => ctlPc = "store"]_vars
    /\ [][(ctlPc = "store" /\ ctlPc' # "store") =>
            PAUSE_SCAN' = ~PAUSE_SCAN]_vars
    /\ [](LET pending == IF ctlPc \in {"load", "store"} THEN 1 ELSE 0
          IN /\ enters >= pending
             /\ PAUSE_SCAN = ((enters - pending) % 2 = 1))

C9_Witness ==
    /\ enters = 2
    /\ ctlPc = "poll"
    /\ ~PAUSE_SCAN

\* ------------------------------------------------------------------ C10
\* C10: in stdin mode a frame that fails to decode is fatal: once
\* get_targets has run the process has exited non-zero with the error
\* reported, no target kept, no connectivity check, no wordlist load and
\* no task.
C10_StdinDecodeFatal ==
    (cfgStdin /\ HasBadFrame /\ pc \notin {"start", "get_targets"}) =>
        /\ exitStatus = "nonzero"
        /\ pc = "exited"
        /\ "main::get_targets" \in diag
        /\ targets = <<>>
        /\ ~connChecked
        /\ live_targets = <<>>
        /\ loadResult = "none"
        /\ tasks = <<>>

C10_Witness ==
    /\ cfgStdin
    /\ Len(stdinStream) = 2
    /\ stdinStream[1] = 1
    /\ stdinStream[2] = BadFrame
    /\ exitStatus = "nonzero"


\* the wordlist file, not read yet, holds a line that cannot be read
HasBadLine ==
    \E i \in 1..Len(wordlistFile.lines) : wordlistFile.lines[i] = BadLine

SomeTaskPanicked == \E i \in 1..Len(tasks) : tasks[i].state = "panicked"

\* the toggles the controller has completed: the Enter events read, less
\* the one whose load or store is still to come
CompletedToggles ==
    enters - (IF ctlPc \in {"load", "store"} THEN 1 ELSE 0)

Odd(n) == n % 2 = 1

\* ------------------------------------------------------------------ C11
\* C11: a task that panics changes nothing but its own handle: its
\* siblings, scan and the process go on; scan does not return before every
\* task has finished, and with a panicked task among them it still returns
\* Ok with all N tasks spawned and finished.
C11_PanicDoesNotAbortSiblings ==
    /\ [][\A i \in 1..Len(tasks) :
            (tasks[i].state = "running" /\ tasks'[i].state = "panicked") =>
               /\ \A j \in 1..Len(tasks) : j # i => tasks'[j] = tasks[j]
               /\ pc' = pc
               /\ scanResult' = scanResult
               /\ exitStatus' = exitStatus]_vars
    /\ []((pc = "scan_join" /\ ~AllTasksFinished) => scanResult = "none")
    /\ []((SomeTaskPanicked /\ pc \notin {"scan_spawn", "scan_join"}) =>
            /\ scanResult = "ok"
            /\ exitStatus # "nonzero"
            /\ AllTasksFinished
            /\ Len(tasks) = Len(live_targets))

C11_Witness ==
    /\ scanResult = "ok"
    /\ Len(tasks) = 2
    /\ tasks[1].state = "panicked"
    /\ tasks[2].state = "done"
    /\ tasks[2].sent > 0
    /\ pc = "returned"

\* ------------------------------------------------------------------ C12
\* C12: the process has exited zero only after the whole shutdown: both of
\* main's senders dropped, the awaited consumers completed, SCAN_COMPLETE
\* set, the final cleanup run and main returned; a non-zero exit happens
\* only on the stdin decode failure and on the empty wordlist, and a run
\* that reaches the end of main never exits non-zero.
C12_ZeroExitAfterShutdown ==
    /\ exitStatus = "zero" =>
          /\ pc = "returned"
          /\ shutdownLog = ShutdownOrder
          /\ ~mainTxTerm
          /\ ~mainTxFile
          /\ termDone
          /\ save_output => fileDone
          /\ SCAN_COMPLETE
    /\ exitStatus = "nonzero" =>
          \/ (cfgStdin /\ HasBadFrame /\ "main::get_targets" \in diag)
          \/ (loadResult = "ok" /\ words = {} /\ "main::scan" \in diag)
    /\ pc \in {"drop_tx_term", "await_term", "drop_tx_file", "await_file",
               "set_complete", "finish", "returned"} => exitStatus # "nonzero"

C12_Witness ==
    /\ exitStatus = "zero"
    /\ save_output
    /\ termSink # <<>>
    /\ loadResult = "ok"

\* ------------------------------------------------------------------ C14
\* C14: once get_targets has returned Ok, targets is the sequence of the
\* frames of stdin in arrival order in stdin mode, and the one configured
\* target otherwise.
C14_TargetsInArrivalOrder ==
    pc \notin {"start", "get_targets", "exited"} =>
        /\ cfgStdin => (~HasBadFrame /\ targets = stdinStream)
        /\ ~cfgStdin => targets = <<target_url>>

C14_Witness ==
    /\ cfgStdin
    /\ pc = "connectivity"
    /\ Len(targets) = 2
    /\ targets[1] = 1
    /\ targets[2] = 2

\* ------------------------------------------------------------------ C16
\* C16: when main is about to drop one of its senders, scan's clone and
\* every task's clone are gone already, so main's is the last one; as long
\* as a task is running main holds both senders, neither channel is closed
\* and neither consumer has completed.
C16_MainDropsLastSender ==
    /\ pc = "drop_tx_term" => (mainTxTerm /\ ~scanTxTerm /\ AllTasksFinished)
    /\ pc = "drop_tx_file" => (mainTxFile /\ ~scanTxFile /\ AllTasksFinished)
    /\ ~AllTasksFinished =>
          /\ mainTxTerm
          /\ mainTxFile
          /\ ~TermClosed
          /\ ~termDone
          /\ ~FileClosed
          /\ ~fileDone

C16_Witness ==
    /\ pc = "drop_tx_term"
    /\ Len(tasks) = 2
    /\ termQueue # <<>>
    /\ ~termDone

\* ------------------------------------------------------------------ C17
\* C17: the wordlist is loaded once, in scan, before the first spawn; a
\* file that cannot be opened or holds a line that cannot be read makes
\* scan return Err with no task spawned, whatever the targets.
C17_LoadOnceBeforeSpawn ==
    /\ [][loadResult # "none" => loadResult' = loadResult]_vars
    /\ [][loadResult' # loadResult => (pc = "scan_load" /\ tasks = <<>>)]_vars
    /\ [][(pc = "scan_load" /\ pc' # "scan_load"
             /\ (~wordlistFile.opens \/ HasBadLine)) =>
            /\ loadResult' = "err"
            /\ scanResult' = "err"
            /\ tasks' = <<>>
            /\ exitStatus' = "running"]_vars
    /\ [](loadResult = "err" => (scanResult = "err" /\ tasks = <<>>))
    /\ [](tasks # <<>> => loadResult = "ok")

C17_Witness ==
    /\ loadResult = "err"
    /\ wordlistFile = ReadFile
    /\ scanResult = "err"
    /\ Len(live_targets) = 2
    /\ pc = "returned"

\* ------------------------------------------------------------------ C18
\* C18: a scan task's read of PAUSE_SCAN changes nothing and returns the
\* value left by the last completed toggle (the initial value when there
\* is none); no toggle is lost: the flag is true exactly when the number
\* of completed toggles is odd, under every interleaving of the
\* controller's steps and the tasks' reads.
C18_ReadsSeeCompletedToggles ==
    /\ [][seen' # seen =>
            /\ PAUSE_SCAN' = PAUSE_SCAN
            /\ seen' = (IF Odd(CompletedToggles) THEN "paused"
                        ELSE "running")]_vars
    /\ [](PAUSE_SCAN = Odd(CompletedToggles))
    /\ [](seen = "paused" => enters >= 1)

C18_Witness ==
    /\ seen = "paused"
    /\ ~PAUSE_SCAN
    /\ enters = 2
    /\ ctlPc = "poll"

\* ------------------------------------------------------------------ C20
\* C20: whenever the process has exited non-zero no task was spawned, no
\* message was sent on either channel, the shutdown was not started and
\* SCAN_COMPLETE is false.
C20_FatalExitBeforeAnySpawn ==
    exitStatus = "nonzero" =>
        /\ pc = "exited"
        /\ tasks = <<>>
        /\ termLog = <<>>
        /\ fileLog = <<>>
        /\ termQueue = <<>>
        /\ fileQueue = <<>>
        /\ shutdownLog = <<>>
        /\ mainTxTerm
        /\ mainTxFile
        /\ ~SCAN_COMPLETE

C20_Witness ==
    /\ exitStatus = "nonzero"
    /\ "main::scan" \in diag
    /\ save_output
    /\ cfgStdin
    /\ Len(live_targets) = 1

\* ------------------------------------------------------------------ C13
\* the lines of the file that are neither empty nor start with '#'
KeptLines ==
    {wordlistFile.lines[i] : i \in
        {j \in 1..Len(wordlistFile.lines) :
            /\ wordlistFile.lines[j] # <<>>
            /\ wordlistFile.lines[j][1] # "#"}}

\* C13: for a file that opens and whose lines can all be read, the loader
\* returns Ok with exactly the set of the distinct lines that are not empty
\* and do not start with '#': its size is the number of such distinct
\* lines, and no empty or comment line is in it.
C13_LoaderReturnsDistinctWords ==
    (pc = "loaded" /\ wordlistFile.opens /\ ~HasBadLine) =>
        /\ loadResult = "ok"
        /\ words = KeptLines
        /\ Cardinality(words) = Cardinality(KeptLines)
        /\ \A i \in 1..Len(wordlistFile.lines) :
              BlankOrComment(wordlistFile.lines[i]) =>
                 wordlistFile.lines[i] \notin words

C13_Witness ==
    /\ pc = "loaded"
    /\ loadResult = "ok"
    /\ Len(wordlistFile.lines) = 2
    /\ wordlistFile.lines[1] = <<"a", "#">>
    /\ wordlistFile.lines[2] = <<"a", "#">>
    /\ Cardinality(words) = 1

\* ------------------------------------------------------------------ C15
\* C15 as stated: once SCAN_COMPLETE is set the controller eventually
\* leaves its loop, whatever events keep arriving.
C15_ExitsOnceFlagSet == SCAN_COMPLETE ~> (ctlPc = "done")

\* C15, amended: once SCAN_COMPLETE is set, the controller leaves its loop
\* at the first poll that returns no event (a timeout or a poll error):
\* from the check that follows such a poll it always reaches the end of
\* the loop. While every poll returns an event the check is not reached.
C15_ExitsAtNextQuietPoll ==
    (SCAN_COMPLETE /\ ctlPc = "check") ~> (ctlPc = "done")

C15_Witness ==
    /\ SCAN_COMPLETE
    /\ ctlPc = "done"
    /\ enters = 2
    /\ exitStatus = "running"

\* ------------------------------------------------------------------ C19
\* C19: every run either takes a fatal exit or main reaches its end, and
\* at its end both senders are dropped, each awaited consumer has
\* completed, the whole shutdown sequence has run in order and
\* SCAN_COMPLETE is set; a run where scan returned an error reaches it too.
C19_ShutdownAlwaysCompletes ==
    /\ <>(exitStatus = "nonzero" \/ pc = "returned")
    /\ (scanResult = "err") ~> (pc = "returned")
    /\ [](pc = "returned" =>
            /\ shutdownLog = ShutdownOrder
            /\ ~mainTxTerm
            /\ ~mainTxFile
            /\ termDone
            /\ save_output => fileDone
            /\ SCAN_COMPLETE)

C19_Witness ==
    /\ pc = "returned"
    /\ scanResult = "err"
    /\ save_output
    /\ SCAN_COMPLETE
    /\ Len(live_targets) = 2

====
